---- MODULE Spec2Model ----
(***************************************************************************)
(* State-machine model of src/src/etl_pipeline.py (class EcommerceETL):    *)
(* one pipeline object per run, the stages of run() as actions, and the    *)
(* warehouse (dim_dates, dim_customers, dim_products, fact_transactions)   *)
(* as the committed storage the runs share.                                *)
(*                                                                         *)
(* Encoding of the CSV values                                              *)
(*   text    a sequence of one-character strings; the empty sequence is an *)
(*           empty CSV field, which read_csv turns into NaN (absent)       *)
(*   price   <<>> for NaN, <<c>> for a price of c cents                    *)
(*   time    the text of InvoiceDate as the tokens <<y, m, d, h>>; any     *)
(*           other shape is text pd.to_datetime cannot parse               *)
(***************************************************************************)
EXTENDS Integers, Sequences, FiniteSets, TLC

(***************************************************************************)
(* Bounds of the model.                                                    *)
(***************************************************************************)
\* longest CSV file (rows) a run is given
MaxRows == 3
\* number of pipeline runs (processes started one after the other)
MaxRuns == 2

(***************************************************************************)
(* Program constants.                                                      *)
(***************************************************************************)
\* the outlier ceiling of transform(): df['Quantity'] <= 10000
QuantityCeiling == 10000
\* execute_batch(..., page_size=1000), scaled down to 2 rows per page so that
\* MaxRows rows make more than one page
PageSize == 2

(***************************************************************************)
(* Text helpers.                                                           *)
(***************************************************************************)
\* a NaN cell: read_csv reads an empty field as NaN
IsNull(s) == s = <<>>

\* str.startswith(prefix) for a one-character prefix; na=False for NaN
StartsWith(s, c) == IF IsNull(s) THEN FALSE ELSE Head(s) = c

RECURSIVE LStrip(_)
LStrip(s) == IF s # <<>> /\ Head(s) = " " THEN LStrip(Tail(s)) ELSE s

RECURSIVE RStrip(_)
RStrip(s) ==
  IF s # <<>> /\ s[Len(s)] = " " THEN RStrip(SubSeq(s, 1, Len(s) - 1)) ELSE s

\* str.strip()
Strip(s) == RStrip(LStrip(s))

UpperChar(c) ==
  CASE c = "m" -> "M"
    [] c = "u" -> "U"
    [] c = "g" -> "G"
    [] c = "c" -> "C"
    [] c = "p" -> "P"
    [] c = "x" -> "X"
    [] OTHER -> c

\* str.upper()
Upper(s) == [i \in 1..Len(s) |-> UpperChar(s[i])]

DigitChars == {"0", "1", "2", "3", "4", "5", "6", "7", "8", "9"}

DigitVal(c) ==
  CASE c = "0" -> 0 [] c = "1" -> 1 [] c = "2" -> 2 [] c = "3" -> 3
    [] c = "4" -> 4 [] c = "5" -> 5 [] c = "6" -> 6 [] c = "7" -> 7
    [] c = "8" -> 8 [] c = "9" -> 9

\* whether int(s) succeeds: astype(int) raises ValueError on anything else
IsIntText(s) == s # <<>> /\ \A i \in 1..Len(s) : s[i] \in DigitChars

RECURSIVE ParseInt(_)
\* int(s) of a text of decimal digits
ParseInt(s) ==
  IF s = <<>> THEN 0
  ELSE 10 * ParseInt(SubSeq(s, 1, Len(s) - 1)) + DigitVal(s[Len(s)])

\* the order of one-character strings that sorts the group keys of groupby
CharCode(c) ==
  CASE c \in DigitChars -> 48 + DigitVal(c)
    [] c = " " -> 32
    [] c = "A" -> 65 [] c = "B" -> 66 [] c = "C" -> 67
    [] OTHER -> 120

RECURSIVE TextLess(_, _)
\* a < b for two str (lexicographic)
TextLess(a, b) ==
  IF b = <<>> THEN FALSE
  ELSE IF a = <<>> THEN TRUE
  ELSE IF CharCode(Head(a)) # CharCode(Head(b))
       THEN CharCode(Head(a)) < CharCode(Head(b))
  ELSE TextLess(Tail(a), Tail(b))

(***************************************************************************)
(* Sequence helpers.                                                       *)
(***************************************************************************)
Range(s) == {s[i] : i \in 1..Len(s)}

RECURSIVE SumSeq(_)
SumSeq(s) == IF s = <<>> THEN 0 ELSE Head(s) + SumSeq(Tail(s))

RECURSIVE UniqueSeq(_)
\* Series.unique(): the distinct values in order of first appearance
UniqueSeq(s) ==
  IF s = <<>> THEN <<>>
  ELSE LET init == UniqueSeq(SubSeq(s, 1, Len(s) - 1))
           last == s[Len(s)]
       IN IF last \in Range(init) THEN init ELSE Append(init, last)

\* the integers of the finite set S in ascending order (groupby sorts its
\* keys)
SortedInts(S) ==
  [k \in 1..Cardinality(S) |->
     CHOOSE x \in S : Cardinality({y \in S : y < x}) = k - 1]

\* the texts of the finite set S in ascending order (groupby sorts its keys)
SortedTexts(S) ==
  [k \in 1..Cardinality(S) |->
     CHOOSE x \in S : Cardinality({y \in S : TextLess(y, x)}) = k - 1]

RECURSIVE Gcd(_, _)
Gcd(a, b) == IF b = 0 THEN a ELSE Gcd(b, a % b)

(***************************************************************************)
(* Timestamps.                                                             *)
(***************************************************************************)
\* whether pd.to_datetime can parse the text
IsTimeText(s) == Len(s) = 4

\* pd.to_datetime of a parseable text
ParseTime(s) == [year |-> s[1], month |-> s[2], day |-> s[3], hour |-> s[4]]

\* Timestamp.date()
DateOf(t) == [year |-> t.year, month |-> t.month, day |-> t.day]

\* the order of timestamps (min and max of InvoiceDate)
TimeKey(t) == ((t.year * 12 + t.month) * 31 + t.day) * 24 + t.hour

\* dt.dayofweek, Monday = 0 (Sakamoto's rule, shifted from Sunday = 0)
DayOfWeek(y, m, d) ==
  LET t == <<0, 3, 2, 5, 0, 3, 5, 1, 4, 6, 2, 4>>
      yy == IF m < 3 THEN y - 1 ELSE y
      sun0 == (yy + (yy \div 4) - (yy \div 100) + (yy \div 400) + t[m] + d) % 7
  IN (sun0 + 6) % 7

\* dt.quarter
Quarter(m) == ((m - 1) \div 3) + 1

(***************************************************************************)
(* transform(): the cleaning rules.  A frame is a sequence of              *)
(* [idx, row]: pandas keeps each row's index label through every filter.   *)
(***************************************************************************)
Frame(raw) == [i \in 1..Len(raw) |-> [idx |-> i, row |-> raw[i]]]

\* df.drop_duplicates() with its result not assigned
DropDuplicatesUnassigned(raw, df) == df

\* 1. df.drop_duplicates(): a row equal to an earlier row is dropped
DropDuplicates(raw, df) ==
  SelectSeq(df, LAMBDA r : \A j \in 1..(r.idx - 1) : raw[j] # r.row)

\* 2. df.dropna(subset=['CustomerID'])
DropNullCustomer(df) == SelectSeq(df, LAMBDA r : ~IsNull(r.row.CustomerID))

\* 2. df.dropna(subset=['Description'])
DropNullDescription(df) == SelectSeq(df, LAMBDA r : ~IsNull(r.row.Description))

\* 3. whether pd.to_datetime or astype(int) raises on the rows left
ConversionRaises(df) ==
  \E i \in 1..Len(df) :
    \/ ~IsNull(df[i].row.InvoiceDate) /\ ~IsTimeText(df[i].row.InvoiceDate)
    \/ ~IsIntText(df[i].row.CustomerID)

\* the test for a lower-case 'c'
NotCancelledRuleLower(r) == ~StartsWith(r.row.InvoiceNo, "c")

\* 4. df[~df['InvoiceNo'].str.startswith('C', na=False)]
NotCancelledRule(r) == ~StartsWith(r.row.InvoiceNo, "C")
DropCancelled(df) == SelectSeq(df, NotCancelledRule)

\* the mask with | in place of &
PositiveRuleEither(r) ==
  r.row.Quantity > 0 \/ (~IsNull(r.row.UnitPrice) /\ r.row.UnitPrice[1] > 0)

\* 4. df[(df['Quantity'] > 0) & (df['UnitPrice'] > 0)]; NaN > 0 is False
PositiveRule(r) ==
  r.row.Quantity > 0 /\ ~IsNull(r.row.UnitPrice) /\ r.row.UnitPrice[1] > 0
DropNonPositive(df) == SelectSeq(df, PositiveRule)

\* 4. df[df['Quantity'] <= 10000]
CeilingRule(r) == r.row.Quantity <= QuantityCeiling
DropOutliers(df) == SelectSeq(df, CeilingRule)

\* 3., 5., 6. the converted, derived and cleaned columns of one kept row
CleanRecord(r) ==
  LET t == ParseTime(r.row.InvoiceDate)
  IN [idx |-> r.idx,
      InvoiceNo |-> r.row.InvoiceNo,
      StockCode |-> r.row.StockCode,
      Description |-> Upper(Strip(r.row.Description)),
      Quantity |-> r.row.Quantity,
      InvoiceDate |-> t,
      UnitPrice |-> r.row.UnitPrice[1],
      CustomerID |-> ParseInt(r.row.CustomerID),
      Country |-> Strip(r.row.Country),
      TotalAmount |-> r.row.Quantity * r.row.UnitPrice[1],
      Year |-> t.year,
      Month |-> t.month,
      Day |-> t.day,
      DayOfWeek |-> DayOfWeek(t.year, t.month, t.day),
      Hour |-> t.hour]

\* the frame before the type conversions
BeforeConversion(raw) ==
  DropNullDescription(DropNullCustomer(DropDuplicates(raw, Frame(raw))))

\* the frame after the last filter
Filtered(raw) ==
  DropOutliers(DropNonPositive(DropCancelled(BeforeConversion(raw))))

\* transform() as a function of df_raw: whether it returns True, whether it
\* got as far as storing df_clean and the statistics, and what it stored
TransformOf(raw) ==
  IF ConversionRaises(BeforeConversion(raw))
  THEN [ok |-> FALSE, stored |-> FALSE, clean |-> <<>>]
  ELSE LET df == Filtered(raw)
           clean == [i \in 1..Len(df) |-> CleanRecord(df[i])]
       IN \* the closing log line divides by initial_rows
          [ok |-> Len(raw) # 0, stored |-> TRUE, clean |-> clean]

(***************************************************************************)
(* The warehouse.  A table is the set of its committed rows;               *)
(* fact_transactions, which has no key, is the sequence of its rows in     *)
(* insertion order.  A write made inside a transaction becomes part of the *)
(* table at commit() and is discarded by rollback().                       *)
(***************************************************************************)
EmptyWarehouse ==
  [dim_dates |-> {}, dim_customers |-> {}, dim_products |-> {},
   fact_transactions |-> <<>>]

\* the storage-generated key of a new row (date_id, product_id)
NextId(table) == Cardinality(table) + 1

\* conn.commit(): the transaction's writes become the stored table
Commit(stored, written) == written

\* a rollback that leaves the writes in place (each statement committed on
\* its own, as under autocommit)
RollbackKeepsWrites(stored, written) == written

\* conn.rollback(): the transaction's writes are discarded
Rollback(stored, written) == stored

(***************************************************************************)
(* load_dimensions(): the three projections of df_clean and their upserts. *)
(***************************************************************************)
\* one row of dates_df
DateRow(d) ==
  [full_date |-> d,
   year |-> d.year,
   quarter |-> Quarter(d.month),
   month |-> d.month,
   day_of_month |-> d.day,
   day_of_week |-> DayOfWeek(d.year, d.month, d.day),
   is_weekend |-> DayOfWeek(d.year, d.month, d.day) \in {5, 6}]

\* dates_df: one row per distinct InvoiceDate.dt.date, in order of appearance
DatesFrame(clean) ==
  LET days == UniqueSeq([i \in 1..Len(clean) |-> DateOf(clean[i].InvoiceDate)])
  IN [i \in 1..Len(days) |-> DateRow(days[i])]

\* the INSERT without its ON CONFLICT clause, on a table without the
\* unique constraint
InsertDateAlways(table, row) ==
  table \cup {[date_id |-> NextId(table),
               full_date |-> row.full_date,
               year |-> row.year,
               quarter |-> row.quarter,
               month |-> row.month,
               day_of_month |-> row.day_of_month,
               day_of_week |-> row.day_of_week,
               is_weekend |-> row.is_weekend]}

\* INSERT INTO dim_dates ... ON CONFLICT (full_date) DO NOTHING
InsertDate(table, row) ==
  IF \E r \in table : r.full_date = row.full_date
  THEN table
  ELSE table \cup {[date_id |-> NextId(table),
                    full_date |-> row.full_date,
                    year |-> row.year,
                    quarter |-> row.quarter,
                    month |-> row.month,
                    day_of_month |-> row.day_of_month,
                    day_of_week |-> row.day_of_week,
                    is_weekend |-> row.is_weekend]}

RECURSIVE InsertDates(_, _)
\* for _, row in dates_df.iterrows(): cursor.execute(INSERT ...)
InsertDates(table, rows) ==
  IF rows = <<>> THEN table
  ELSE InsertDates(InsertDate(table, Head(rows)), Tail(rows))

\* 'first' of a column: the first value of the group that is not NaN
FirstNonNull(col) ==
  LET present == SelectSeq(col, LAMBDA v : ~IsNull(v))
  IN IF present = <<>> THEN <<>> ELSE Head(present)

\* 'min' / 'max' of InvoiceDate over a group
MinTime(g) ==
  LET i == CHOOSE i \in 1..Len(g) : \A j \in 1..Len(g) :
             TimeKey(g[i].InvoiceDate) <= TimeKey(g[j].InvoiceDate)
  IN g[i].InvoiceDate
MaxTime(g) ==
  LET i == CHOOSE i \in 1..Len(g) : \A j \in 1..Len(g) :
             TimeKey(g[i].InvoiceDate) >= TimeKey(g[j].InvoiceDate)
  IN g[i].InvoiceDate

\* 'nunique' of InvoiceNo over a group: the distinct values that are not NaN
NUnique(g) == Cardinality({g[i].InvoiceNo : i \in 1..Len(g)} \ {<<>>})

\* one row of customers_df: the aggregates of the rows of one CustomerID
CustomerRow(clean, id) ==
  LET g == SelectSeq(clean, LAMBDA r : r.CustomerID = id)
  IN [customer_id |-> id,
      country |-> FirstNonNull([i \in 1..Len(g) |-> g[i].Country]),
      first_purchase_date |-> MinTime(g),
      last_purchase_date |-> MaxTime(g),
      total_orders |-> NUnique(g),
      lifetime_value |-> SumSeq([i \in 1..Len(g) |-> g[i].TotalAmount])]

\* customers_df: groupby('CustomerID'), one row per id, sorted by id
CustomersFrame(clean) ==
  LET ids == SortedInts({clean[i].CustomerID : i \in 1..Len(clean)})
  IN [i \in 1..Len(ids) |-> CustomerRow(clean, ids[i])]

\* ON CONFLICT (customer_id) DO NOTHING
CustomerUpdateNothing(old, row) == old

\* the ON CONFLICT (customer_id) DO UPDATE SET list
CustomerUpdate(old, row) ==
  [old EXCEPT !.last_purchase_date = row.last_purchase_date,
              !.total_orders = row.total_orders,
              !.lifetime_value = row.lifetime_value]

\* INSERT INTO dim_customers ... ON CONFLICT (customer_id) DO UPDATE SET ...
UpsertCustomer(table, row) ==
  IF \E r \in table : r.customer_id = row.customer_id
  THEN {IF r.customer_id = row.customer_id THEN CustomerUpdate(r, row) ELSE r :
          r \in table}
  ELSE table \cup {row}

RECURSIVE UpsertCustomers(_, _)
\* for _, row in customers_df.iterrows(): cursor.execute(INSERT ...)
UpsertCustomers(table, rows) ==
  IF rows = <<>> THEN table
  ELSE UpsertCustomers(UpsertCustomer(table, Head(rows)), Tail(rows))

\* 'mean' of UnitPrice over a group, as the fraction <<numerator, denominator>>
\* in lowest terms (cents)
MeanPrice(g) ==
  LET total == SumSeq([i \in 1..Len(g) |-> g[i].UnitPrice])
      d == Gcd(total, Len(g))
  IN <<total \div d, Len(g) \div d>>

\* one row of products_df
ProductRow(clean, code) ==
  LET g == SelectSeq(clean, LAMBDA r : r.StockCode = code)
  IN [stock_code |-> code,
      description |-> FirstNonNull([i \in 1..Len(g) |-> g[i].Description]),
      unit_price |-> MeanPrice(g)]

\* products_df: groupby('StockCode'), which leaves out the rows whose key is
\* NaN, one row per code, sorted by code
ProductsFrame(clean) ==
  LET codes == SortedTexts({clean[i].StockCode : i \in 1..Len(clean)} \ {<<>>})
  IN [i \in 1..Len(codes) |-> ProductRow(clean, codes[i])]

\* INSERT INTO dim_products ... ON CONFLICT (stock_code) DO UPDATE SET ...
UpsertProduct(table, row) ==
  IF \E r \in table : r.stock_code = row.stock_code
  THEN {IF r.stock_code = row.stock_code
        THEN [r EXCEPT !.description = row.description,
                       !.unit_price = row.unit_price]
        ELSE r : r \in table}
  ELSE table \cup {[product_id |-> NextId(table),
                    stock_code |-> row.stock_code,
                    description |-> row.description,
                    unit_price |-> row.unit_price]}

RECURSIVE UpsertProducts(_, _)
\* for _, row in products_df.iterrows(): cursor.execute(INSERT ...)
UpsertProducts(table, rows) ==
  IF rows = <<>> THEN table
  ELSE UpsertProducts(UpsertProduct(table, Head(rows)), Tail(rows))

(***************************************************************************)
(* Faults.  A call the pipeline makes to a collaborator (the database, the *)
(* file system) may raise; a fault names the stage it strikes, the step of *)
(* the stage, and how far the step had come.                               *)
(***************************************************************************)
NoFault == [stage |-> "none", type |-> "none", at |-> 0]

Fault(stage, type, at) == [stage |-> stage, type |-> type, at |-> at]

\* create_engine raises, or psycopg2.connect raises after the engine exists
ConnectFaults ==
  {Fault("connect", "engine", 0), Fault("connect", "connection", 0)}

\* pd.read_csv raises (no file, a missing column, a malformed number)
ExtractFaults == {Fault("extract", "read", 0)}

\* the execute of row at + 1 of a dimension type raises after `at` rows of
\* the type were written; at = number of rows: its commit raises
DimensionFaults(clean) ==
  {Fault("load_dimensions", "dates", k) : k \in 0..Len(DatesFrame(clean))}
    \cup
  {Fault("load_dimensions", "customers", k) :
     k \in 0..Len(CustomersFrame(clean))}
    \cup
  {Fault("load_dimensions", "products", k) :
     k \in 0..Len(ProductsFrame(clean))}

\* the number of pages execute_batch makes of n rows
NumPages(n) == (n + PageSize - 1) \div PageSize

\* a lookup raises, the write of page `at` raises, or the commit raises
FactFaults(n) ==
  {Fault("load_facts", "lookup", 0), Fault("load_facts", "commit", 0)}
    \cup {Fault("load_facts", "batch", b) : b \in 1..NumPages(n)}

RefreshFaults == {Fault("refresh_aggregates", "refresh", 0)}

ValidateFaults == {Fault("validate", "query", 0)}

(***************************************************************************)
(* load_dimensions() as a function of the warehouse, the statistics,       *)
(* df_clean and the fault that strikes it.                                 *)
(***************************************************************************)
LoadDimensionsOf(wh, st, clean, f) ==
  LET dates == DatesFrame(clean)
      custs == CustomersFrame(clean)
      prods == ProductsFrame(clean)
      hit(t) == f.stage = "load_dimensions" /\ f.type = t
      upto(rows, t) == IF hit(t) THEN SubSeq(rows, 1, f.at) ELSE rows
      wd == InsertDates(wh.dim_dates, upto(dates, "dates"))
      wc == UpsertCustomers(wh.dim_customers, upto(custs, "customers"))
      wp == UpsertProducts(wh.dim_products, upto(prods, "products"))
      err == Append(st.errors, "Dimension load error")
  IN IF hit("dates")
     THEN [ok |-> FALSE,
           wh |-> [wh EXCEPT !.dim_dates = Rollback(@, wd)],
           stats |-> [st EXCEPT !.errors = err],
           committed |-> {}]
     ELSE IF hit("customers")
     THEN [ok |-> FALSE,
           wh |-> [wh EXCEPT !.dim_dates = Commit(@, wd),
                             !.dim_customers = Rollback(@, wc)],
           stats |-> [st EXCEPT !.dates_loaded = Len(dates), !.errors = err],
           committed |-> {"dates"}]
     ELSE IF hit("products")
     THEN [ok |-> FALSE,
           wh |-> [wh EXCEPT !.dim_dates = Commit(@, wd),
                             !.dim_customers = Commit(@, wc),
                             !.dim_products = Rollback(@, wp)],
           stats |-> [st EXCEPT !.dates_loaded = Len(dates),
                                !.customers_loaded = Len(custs),
                                !.errors = err],
           committed |-> {"dates", "customers"}]
     ELSE [ok |-> TRUE,
           wh |-> [wh EXCEPT !.dim_dates = Commit(@, wd),
                             !.dim_customers = Commit(@, wc),
                             !.dim_products = Commit(@, wp)],
           stats |-> [st EXCEPT !.dates_loaded = Len(dates),
                                !.customers_loaded = Len(custs),
                                !.products_loaded = Len(prods)],
           committed |-> {"dates", "customers", "products"}]

(***************************************************************************)
(* load_facts(): the foreign-key lookups and the batch insert.             *)
(***************************************************************************)
\* SELECT customer_id FROM dim_customers WHERE customer_id = %s
LookupCustomer(wh, r) ==
  {d \in wh.dim_customers : d.customer_id = r.CustomerID}

\* SELECT product_id FROM dim_products WHERE stock_code = %s; a NaN
\* parameter equals no stock_code
LookupProduct(wh, r) ==
  {d \in wh.dim_products : ~IsNull(r.StockCode) /\ d.stock_code = r.StockCode}

\* SELECT date_id FROM dim_dates WHERE full_date = %s
LookupDate(wh, r) ==
  {d \in wh.dim_dates : d.full_date = DateOf(r.InvoiceDate)}

\* the test without product_result
AllFoundButProduct(c, p, d) == c # {} /\ d # {}

\* if customer_result and product_result and date_result
AllFound(c, p, d) == c # {} /\ p # {} /\ d # {}

\* whether the record of clean row r is appended to transactions
Resolves(wh, r) ==
  AllFound(LookupCustomer(wh, r), LookupProduct(wh, r), LookupDate(wh, r))

\* result[0] of a None result raises TypeError
SubscriptRaises(wh, r) ==
  \/ LookupCustomer(wh, r) = {}
  \/ LookupProduct(wh, r) = {}
  \/ LookupDate(wh, r) = {}

\* the tuple appended to transactions for a clean row whose lookups all
\* returned a row
FactRow(wh, r) ==
  [invoice_no |-> r.InvoiceNo,
   customer_id |-> (CHOOSE d \in LookupCustomer(wh, r) : TRUE).customer_id,
   product_id |-> (CHOOSE d \in LookupProduct(wh, r) : TRUE).product_id,
   date_id |-> (CHOOSE d \in LookupDate(wh, r) : TRUE).date_id,
   invoice_date |-> r.InvoiceDate,
   quantity |-> r.Quantity,
   unit_price |-> r.UnitPrice]

\* the column total_amount of a stored fact row, which the INSERT does not
\* supply: the table derives it from quantity and unit_price (in cents)
total_amount(f) == f.quantity * f.unit_price

\* the clean rows that pass the test, in order
Kept(wh, clean) == SelectSeq(clean, LAMBDA r : Resolves(wh, r))

\* the list transactions after the loop over df_clean
Transactions(wh, clean) ==
  [i \in 1..Len(Kept(wh, clean)) |-> FactRow(wh, Kept(wh, clean)[i])]

\* the rows execute_batch had written when fault f struck
RowsWritten(tx, f) ==
  IF f.stage # "load_facts" THEN Len(tx)
  ELSE IF f.type = "lookup" THEN 0
  ELSE IF f.type = "batch" THEN (f.at - 1) * PageSize
  ELSE Len(tx)

\* load_facts() as a function of the warehouse, the statistics, df_clean
\* and the fault that strikes it
LoadFactsOf(wh, st, clean, f) ==
  IF \E i \in 1..Len(clean) :
       Resolves(wh, clean[i]) /\ SubscriptRaises(wh, clean[i])
  THEN [ok |-> FALSE, wh |-> wh,
        stats |-> [st EXCEPT !.errors = Append(@, "Fact load error")]]
  ELSE LET tx == Transactions(wh, clean)
           written == wh.fact_transactions \o SubSeq(tx, 1, RowsWritten(tx, f))
       IN IF f.stage = "load_facts"
          THEN [ok |-> FALSE,
                wh |-> [wh EXCEPT !.fact_transactions = Rollback(@, written)],
                stats |-> [st EXCEPT !.errors = Append(@, "Fact load error")]]
          ELSE [ok |-> TRUE,
                wh |-> [wh EXCEPT !.fact_transactions = Commit(@, written)],
                stats |-> [st EXCEPT
                             !.transactions_loaded = Len(tx)]]

(***************************************************************************)
(* run(): the order of the stages.                                         *)
(***************************************************************************)
StageOrder ==
  <<"connect", "extract", "transform", "load_dimensions", "load_facts",
    "refresh_aggregates", "validate">>

StageIndex(stage) == CHOOSE i \in 1..Len(StageOrder) : StageOrder[i] = stage

\* a run() that does not test what load_dimensions() returned
AfterStageUntested(stage, ok) ==
  IF stage = "validate" THEN "close"
  ELSE IF ok \/ stage = "load_dimensions"
  THEN StageOrder[StageIndex(stage) + 1]
  ELSE "close"

\* where run() goes after a stage returned: `if not self.stage(): return
\* False` for the first six, and past validate(), whose result is not tested,
\* to the end of the try block; every return passes through finally
AfterStage(stage, ok) ==
  IF stage = "validate" THEN "close"
  ELSE IF ok THEN StageOrder[StageIndex(stage) + 1]
  ELSE "close"

\* what run() returns after a stage returned ("none": it has not returned);
\* the closing log lines divide by rows_extracted
ReturnValue(stage, ok, st) ==
  IF stage = "validate"
  THEN IF st.rows_extracted = 0 THEN "False" ELSE "True"
  ELSE IF ok THEN "none" ELSE "False"

(***************************************************************************)
(* The CSV files the runs are given.                                       *)
(***************************************************************************)
Row(inv, stock, desc, qty, time, price, cust, country) ==
  [InvoiceNo |-> inv, StockCode |-> stock, Description |-> desc,
   Quantity |-> qty, InvoiceDate |-> time, UnitPrice |-> price,
   CustomerID |-> cust, Country |-> country]

Inv1001 == <<"1", "0", "0", "1">>
Inv1002 == <<"1", "0", "0", "2">>
InvC1001 == <<"C", "1", "0", "0", "1">>
Invc1001 == <<"c", "1", "0", "0", "1">>
Mug == <<" ", "m", "u", "g">>
Cup == <<"c", "u", "p", " ">>
Cust101 == <<"1", "0", "1">>
Cust102 == <<"1", "0", "2">>
UK == <<"U", "K", " ">>
\* Wednesday 2010-12-01 08h, the same day 09h, Saturday 2010-12-04 09h
Wed08 == <<2010, 12, 1, 8>>
Wed09 == <<2010, 12, 1, 9>>
Sat09 == <<2010, 12, 4, 9>>

BaseRow == Row(Inv1001, <<"A">>, Mug, 3, Wed08, <<250>>, Cust101, UK)

\* the rows of the files of the specification of several runs: three rows
\* that clean and resolve, and one whose StockCode is empty; neither the
\* stock codes nor the invoice dates are in sorted order
Rows ==
  <<BaseRow,
    Row(Inv1002, <<"B">>, Cup, 2, Sat09, <<100>>, Cust101, UK),
    Row(Inv1002, <<"A">>, Mug, 1, Wed09, <<300>>, Cust102, UK),
    Row(Inv1001, <<>>, Mug, 1, Sat09, <<100>>, Cust102, UK)>>

\* the files of at most MaxRows of these rows, each at most once and in the
\* order above (repeated rows are the subject of the one-run specification)
SubFiles ==
  {[k \in 1..Cardinality(I) |-> Rows[SortedInts(I)[k]]] :
     I \in {J \in SUBSET (1..Len(Rows)) : Cardinality(J) <= MaxRows}}

\* the rows of the files of the one-run specification: the base row and the
\* rows that differ from it in one column, one for each side of each rule
RowsT ==
  {BaseRow,
   [BaseRow EXCEPT !.InvoiceNo = Inv1002],
   [BaseRow EXCEPT !.InvoiceNo = InvC1001],
   [BaseRow EXCEPT !.InvoiceNo = Invc1001],
   [BaseRow EXCEPT !.Description = <<>>],
   [BaseRow EXCEPT !.Quantity = 0],
   [BaseRow EXCEPT !.Quantity = -1],
   [BaseRow EXCEPT !.Quantity = QuantityCeiling],
   [BaseRow EXCEPT !.Quantity = QuantityCeiling + 1],
   [BaseRow EXCEPT !.Quantity = 50000],
   [BaseRow EXCEPT !.InvoiceDate = <<0>>],
   [BaseRow EXCEPT !.UnitPrice = <<0>>],
   [BaseRow EXCEPT !.UnitPrice = <<>>],
   [BaseRow EXCEPT !.CustomerID = <<>>],
   [BaseRow EXCEPT !.CustomerID = <<"x">>],
   [BaseRow EXCEPT !.CustomerID = Cust102]}

\* the files of at most MaxRows rows over a set of rows
Files(rows) == UNION {[1..n -> rows] : n \in 0..MaxRows}

\* rows of the end-to-end scenario without a customer id: the base row
\* without it, and a row of another invoice, item and day without it
ScenarioAbsent ==
  {[BaseRow EXCEPT !.CustomerID = <<>>],
   Row(Inv1002, <<"B">>, Cup, 2, Sat09, <<100>>, <<>>, UK)}

\* rows of the end-to-end scenario with the invoice id "C1001": the base row
\* with it, the same returning the 3 items, and a row of another customer,
\* item and day
ScenarioCancelled ==
  {[BaseRow EXCEPT !.InvoiceNo = InvC1001],
   [BaseRow EXCEPT !.InvoiceNo = InvC1001, !.Quantity = -3],
   Row(InvC1001, <<"B">>, Cup, 2, Sat09, <<100>>, Cust102, UK)}

\* the files of the end-to-end scenario: the base row, its exact duplicate, a
\* row without a customer id and a row of invoice "C1001", in every order
ScenarioFiles ==
  {[i \in 1..4 |-> <<BaseRow, BaseRow, c, d>>[p[i]]] :
     p \in {q \in [1..4 -> 1..4] : \A i, j \in 1..4 : q[i] = q[j] => i = j},
     c \in ScenarioAbsent, d \in ScenarioCancelled}

(***************************************************************************)
(* State.                                                                  *)
(***************************************************************************)
VARIABLES
  source,      \* the rows of the CSV file at filepath
  wh,          \* the warehouse: the committed rows of the four tables
  runs,        \* the number of runs started
  pc,          \* where run() is: the stage to call next, "close", "done"
  engine,      \* self.engine: "none", "created", "disposed"
  conn,        \* self.conn: "none", "open", "closed"
  df_raw,      \* self.df_raw
  df_clean,    \* self.df_clean
  stats,       \* self.stats
  validation,  \* validation_results
  result,      \* what run() returned: "none", "True", "False"
  fault,       \* the fault that struck this run
  log,         \* the stages this run called, with what each returned
  closes,      \* the number of calls of close() in this run
  committed,   \* the dimension types load_dimensions committed in this run
  wh0,         \* the warehouse when this run started
  prev         \* the run before this one: its df_raw, result and fact rows

vars ==
  <<source, wh, runs, pc, engine, conn, df_raw, df_clean, stats, validation,
    result, fault, log, closes, committed, wh0, prev>>

\* self.stats of __init__
InitStats ==
  [rows_extracted |-> 0, rows_after_cleaning |-> 0, customers_loaded |-> 0,
   products_loaded |-> 0, dates_loaded |-> 0, transactions_loaded |-> 0,
   errors |-> <<>>]

NoValidation ==
  [transaction_count |-> 0, customer_count |-> 0, product_count |-> 0]

NoPrev == [ran |-> FALSE, raw |-> <<>>, result |-> "none", added |-> <<>>]

\* the fact rows the current run added
AddedFacts ==
  SubSeq(wh.fact_transactions, Len(wh0.fact_transactions) + 1,
         Len(wh.fact_transactions))

InitObject ==
  /\ wh = EmptyWarehouse
  /\ pc = "idle"
  /\ engine = "none"
  /\ conn = "none"
  /\ df_raw = <<>>
  /\ df_clean = <<>>
  /\ stats = InitStats
  /\ validation = NoValidation
  /\ result = "none"
  /\ fault = NoFault
  /\ log = <<>>
  /\ closes = 0
  /\ committed = {}
  /\ wh0 = EmptyWarehouse
  /\ prev = NoPrev

\* an empty warehouse, no run started yet, a file of SubFiles
Init ==
  /\ source \in SubFiles
  /\ runs = 0
  /\ InitObject

\* an empty warehouse, the last run still to start, a file of SubFilesT
InitT ==
  /\ source \in Files(RowsT)
  /\ runs = MaxRuns - 1
  /\ InitObject

\* an empty warehouse, the last run still to start, a file of ScenarioFiles
InitE ==
  /\ source \in ScenarioFiles
  /\ runs = MaxRuns - 1
  /\ InitObject

(***************************************************************************)
(* Actions.                                                                *)
(***************************************************************************)
\* __main__: pipeline = EcommerceETL(); pipeline.run(...) up to the try.
\* The first run reads the file of the initial state; before a later run the
\* file at filepath may have been replaced.
StartRun ==
  /\ pc \in {"idle", "done"}
  /\ runs < MaxRuns
  /\ source' \in (IF pc = "idle" THEN {source} ELSE SubFiles)
  /\ runs' = runs + 1
  /\ pc' = "connect"
  /\ engine' = "none"
  /\ conn' = "none"
  /\ df_raw' = <<>>
  /\ df_clean' = <<>>
  /\ stats' = InitStats
  /\ validation' = NoValidation
  /\ result' = "none"
  /\ fault' = NoFault
  /\ log' = <<>>
  /\ closes' = 0
  /\ committed' = {}
  /\ wh0' = wh
  /\ prev' = IF pc = "done"
             THEN [ran |-> TRUE, raw |-> df_raw, result |-> result,
                   added |-> AddedFacts]
             ELSE prev
  /\ UNCHANGED wh

\* the bookkeeping of run() around one stage call
Called(stage, ok, st) ==
  /\ pc' = AfterStage(stage, ok)
  /\ result' = ReturnValue(stage, ok, st)
  /\ log' = Append(log, [stage |-> stage, ok |-> ok])

\* connect()
Connect ==
  /\ pc = "connect"
  /\ \E f \in {NoFault} \cup ConnectFaults :
       /\ engine' = IF f.type = "engine" THEN "none" ELSE "created"
       /\ conn' = IF f = NoFault THEN "open" ELSE "none"
       /\ stats' = IF f = NoFault THEN stats
                   ELSE [stats EXCEPT !.errors = Append(@, "Connection error")]
       /\ fault' = f
       /\ Called("connect", f = NoFault, stats')
  /\ UNCHANGED <<source, wh, runs, df_raw, df_clean, validation, closes,
                 committed, wh0, prev>>

\* extract(filepath)
Extract ==
  /\ pc = "extract"
  /\ \E f \in {NoFault} \cup ExtractFaults :
       /\ df_raw' = IF f = NoFault THEN source ELSE df_raw
       /\ stats' = IF f = NoFault
                   THEN [stats EXCEPT !.rows_extracted = Len(source)]
                   ELSE [stats EXCEPT !.errors = Append(@, "Extraction error")]
       /\ fault' = f
       /\ Called("extract", f = NoFault, stats')
  /\ UNCHANGED <<source, wh, runs, engine, conn, df_clean, validation, closes,
                 committed, wh0, prev>>

\* transform()
Transform ==
  /\ pc = "transform"
  /\ LET t == TransformOf(df_raw)
     IN /\ df_clean' = IF t.stored THEN t.clean ELSE df_clean
        /\ stats' =
             [stats EXCEPT
                !.rows_after_cleaning = IF t.stored THEN Len(t.clean) ELSE @,
                !.errors = IF t.ok THEN @
                           ELSE Append(@, "Transformation error")]
        /\ Called("transform", t.ok, stats')
  /\ UNCHANGED <<source, wh, runs, engine, conn, df_raw, validation, fault,
                 closes, committed, wh0, prev>>

\* load_dimensions()
LoadDimensions ==
  /\ pc = "load_dimensions"
  /\ \E f \in {NoFault} \cup DimensionFaults(df_clean) :
       LET r == LoadDimensionsOf(wh, stats, df_clean, f)
       IN /\ wh' = r.wh
          /\ stats' = r.stats
          /\ committed' = r.committed
          /\ fault' = f
          /\ Called("load_dimensions", r.ok, stats')
  /\ UNCHANGED <<source, runs, engine, conn, df_raw, df_clean, validation,
                 closes, wh0, prev>>

\* load_facts()
LoadFacts ==
  /\ pc = "load_facts"
  /\ \E f \in {NoFault} \cup FactFaults(Len(Kept(wh, df_clean))) :
       LET r == LoadFactsOf(wh, stats, df_clean, f)
       IN /\ wh' = r.wh
          /\ stats' = r.stats
          /\ fault' = f
          /\ Called("load_facts", r.ok, stats')
  /\ UNCHANGED <<source, runs, engine, conn, df_raw, df_clean, validation,
                 closes, committed, wh0, prev>>

\* refresh_aggregates(): the view is refreshed, or the refresh raises and
\* the stage logs it and returns False
RefreshAggregates ==
  /\ pc = "refresh_aggregates"
  /\ \E f \in {NoFault} \cup RefreshFaults :
       /\ fault' = f
       /\ Called("refresh_aggregates", f = NoFault, stats)
  /\ UNCHANGED <<source, wh, runs, engine, conn, df_raw, df_clean, stats,
                 validation, closes, committed, wh0, prev>>

\* validate(): the counts of the tables, or {} when a query raises
Validate ==
  /\ pc = "validate"
  /\ \E f \in {NoFault} \cup ValidateFaults :
       /\ validation' =
            IF f = NoFault
            THEN [transaction_count |-> Len(wh.fact_transactions),
                  customer_count |-> Cardinality(wh.dim_customers),
                  product_count |-> Cardinality(wh.dim_products)]
            ELSE NoValidation
       /\ fault' = f
       /\ Called("validate", f = NoFault, stats)
  /\ UNCHANGED <<source, wh, runs, engine, conn, df_raw, df_clean, stats,
                 closes, committed, wh0, prev>>

\* a close() that disposes of the engine only under `if self.conn:`
CloseNested(c, e) ==
  [conn |-> IF c = "open" THEN "closed" ELSE c,
   engine |-> IF c = "open" /\ e = "created" THEN "disposed" ELSE e]

\* close(): what it makes of self.conn and self.engine
CloseOf(c, e) ==
  [conn |-> IF c = "open" THEN "closed" ELSE c,
   engine |-> IF e = "created" THEN "disposed" ELSE e]

\* finally: self.close(), and run() returns
Close ==
  /\ pc = "close"
  /\ pc' = "done"
  /\ conn' = CloseOf(conn, engine).conn
  /\ engine' = CloseOf(conn, engine).engine
  /\ closes' = closes + 1
  /\ UNCHANGED <<source, wh, runs, df_raw, df_clean, stats, validation,
                 result, fault, log, committed, wh0, prev>>

Next ==
  \/ StartRun
  \/ Connect
  \/ Extract
  \/ Transform
  \/ LoadDimensions
  \/ LoadFacts
  \/ RefreshAggregates
  \/ Validate
  \/ Close

\* up to MaxRuns runs over the files of SubFiles
Spec == Init /\ [][Next]_vars

\* one run over the files of RowsT
SpecT == InitT /\ [][Next]_vars

\* one run over the files of the end-to-end scenario
SpecE == InitE /\ [][Next]_vars

(***************************************************************************)
(* Properties.                                                             *)
(***************************************************************************)
AllDimensionTypes == {"dates", "customers", "products"}

\* run() is past its last stage call
RunOver == pc \in {"close", "done"}

\* the stage this run called as its i-th returned True
Passed(i) == Len(log) >= i /\ log[i].ok

\* the stage this run called as its i-th returned False
Failed(i) == Len(log) >= i /\ ~log[i].ok

\* C1: the stages of a run are called in the order connect, extract,
\* transform, load_dimensions, load_facts, refresh_aggregates, validate; a
\* stage is called only after every earlier stage returned True, so no stage
\* follows a failed one; and a run has inserted fact rows only if its
\* load_dimensions committed all three dimension types
C1_StagesInOrder ==
  /\ Len(log) <= Len(StageOrder)
  /\ \A i \in 1..Len(log) : log[i].stage = StageOrder[i]
  /\ \A i \in 1..(Len(log) - 1) : log[i].ok
  /\ ~RunOver /\ pc # "idle" => /\ pc = StageOrder[Len(log) + 1]
                                /\ \A i \in 1..Len(log) : log[i].ok
  /\ AddedFacts # <<>> => committed = AllDimensionTypes

\* C1: a run whose load_dimensions failed after committing two dimension
\* types, with clean records waiting, has returned
C1_Witness ==
  /\ pc = "done"
  /\ Failed(4)
  /\ committed = {"dates", "customers"}
  /\ Len(df_clean) >= 2

\* C2: close() runs exactly once per run, as its last step, whichever stage
\* failed or none, and only once run() has its return value; after it no
\* connection is open and no engine undisposed
C2_ClosedOnce ==
  /\ pc = "done" => closes = 1 /\ conn # "open" /\ engine # "created"
  /\ pc # "done" => closes = 0
  /\ RunOver <=> result # "none"

\* C2: connect failed after the engine was created and before the connection
\* was opened, and the run has returned
C2_Witness ==
  /\ pc = "done"
  /\ fault = Fault("connect", "connection", 0)
  /\ engine = "disposed"
  /\ conn = "none"

\* C3: a run in which a stage failed, and a run that returned False, has a
\* non-empty stats['errors'] by the time it is over
C3_FailureRecorded ==
  RunOver =>
    /\ (\E i \in 1..Len(log) : ~log[i].ok) => stats.errors # <<>>
    /\ result = "False" => stats.errors # <<>>

\* the clean records of this run, as a set
CleanSet == Range(df_clean)

\* C4: when load_dimensions fails in a dimension type, the table of that
\* type is what it was when the run started, the types before it (dates,
\* then customers, then products) hold a row for every clean record, the
\* tables of the types after it are untouched and counted as not loaded, and
\* the stage has returned False
C4_TypeAtomic ==
  fault.stage = "load_dimensions" =>
    /\ Failed(4)
    /\ RunOver
    /\ fault.type = "dates" =>
         /\ wh.dim_dates = wh0.dim_dates
         /\ wh.dim_customers = wh0.dim_customers
         /\ wh.dim_products = wh0.dim_products
         /\ committed = {}
         /\ stats.dates_loaded = 0 /\ stats.customers_loaded = 0
    /\ fault.type = "customers" =>
         /\ \A r \in CleanSet :
              \E d \in wh.dim_dates : d.full_date = DateOf(r.InvoiceDate)
         /\ wh.dim_customers = wh0.dim_customers
         /\ wh.dim_products = wh0.dim_products
         /\ committed = {"dates"}
         /\ stats.customers_loaded = 0
    /\ fault.type = "products" =>
         /\ \A r \in CleanSet :
              /\ \E d \in wh.dim_dates : d.full_date = DateOf(r.InvoiceDate)
              /\ \E c \in wh.dim_customers : c.customer_id = r.CustomerID
         /\ wh.dim_products = wh0.dim_products
         /\ committed = {"dates", "customers"}
    /\ stats.products_loaded = 0
    /\ wh.fact_transactions = wh0.fact_transactions

\* C4: the write of the second customer row failed after the dates of this
\* run were committed
C4_Witness ==
  /\ fault = Fault("load_dimensions", "customers", 1)
  /\ wh.dim_dates # wh0.dim_dates
  /\ pc = "done"

BreaksRule(row) ==
  \/ row.CustomerID = <<>>
  \/ (row.InvoiceNo # <<>> /\ row.InvoiceNo[1] = "C")
  \/ row.Quantity <= 0
  \/ row.Quantity > 10000
  \/ row.UnitPrice = <<>>
  \/ row.UnitPrice[1] <= 0

\* C6: every clean record has a customer id, an invoice id that does not
\* begin with C, 0 < quantity <= 10000 and a unit price > 0; no raw row that
\* breaks one of these rules is behind a clean record, and none behind a
\* fact row
C6_CleanRecordsValid ==
  /\ \A r \in CleanSet :
       /\ r.CustomerID \in Nat /\ df_raw[r.idx].CustomerID # <<>>
       /\ r.InvoiceNo = <<>> \/ r.InvoiceNo[1] # "C"
       /\ r.Quantity > 0 /\ r.Quantity <= 10000
       /\ r.UnitPrice > 0
       /\ ~BreaksRule(df_raw[r.idx])
  /\ \A i \in 1..Len(AddedFacts) :
       /\ AddedFacts[i].quantity > 0 /\ AddedFacts[i].quantity <= 10000
       /\ AddedFacts[i].unit_price > 0
       /\ AddedFacts[i].invoice_no = <<>> \/ AddedFacts[i].invoice_no[1] # "C"

\* C6: a file with a row of quantity 50000 among rows that clean has been
\* transformed and loaded
C6_Witness ==
  /\ \E i \in 1..Len(df_raw) : df_raw[i].Quantity = 50000
  /\ \E i \in 1..Len(df_raw) : df_raw[i].CustomerID = <<>>
  /\ Passed(5)
  /\ AddedFacts # <<>>

\* a raw row that breaks one of the cleaning rules C7 names
BreaksCleaning(raw, i) ==
  \/ \E j \in 1..(i - 1) : raw[j] = raw[i]
  \/ raw[i].CustomerID = <<>>
  \/ raw[i].Description = <<>>
  \/ (raw[i].InvoiceNo # <<>> /\ raw[i].InvoiceNo[1] = "C")
  \/ raw[i].Quantity <= 0
  \/ raw[i].UnitPrice = <<>>
  \/ raw[i].UnitPrice[1] <= 0
  \/ raw[i].Quantity > 10000

\* C7: once transform has run, rows_after_cleaning <= rows_extracted; the
\* clean records are distinct rows of the raw input, each with the values of
\* its raw row; and the two counts are equal only if no raw row breaks a
\* cleaning rule
C7_Retention ==
  Len(log) >= 3 =>
    /\ stats.rows_extracted = Len(df_raw)
    /\ stats.rows_after_cleaning = Len(df_clean)
    /\ stats.rows_after_cleaning <= stats.rows_extracted
    /\ \A i \in 1..Len(df_clean) :
         /\ df_clean[i].idx \in 1..Len(df_raw)
         /\ \A j \in 1..(i - 1) : df_clean[j].idx < df_clean[i].idx
         /\ LET raw == df_raw[df_clean[i].idx]
            IN /\ df_clean[i].InvoiceNo = raw.InvoiceNo
               /\ df_clean[i].StockCode = raw.StockCode
               /\ df_clean[i].Quantity = raw.Quantity
               /\ <<df_clean[i].UnitPrice>> = raw.UnitPrice
               /\ IsIntText(raw.CustomerID)
               /\ df_clean[i].CustomerID = ParseInt(raw.CustomerID)
    /\ stats.rows_after_cleaning = stats.rows_extracted =>
         \A i \in 1..Len(df_raw) : ~BreaksCleaning(df_raw, i)

\* C7: transform kept every row of a file of three rows
C7_Witness ==
  /\ Passed(3)
  /\ stats.rows_extracted = 3
  /\ stats.rows_after_cleaning = 3

\* the clean records (by position) whose customer id, item code and date
\* each have a row in the warehouse
Resolvable ==
  {i \in 1..Len(df_clean) :
     /\ \E c \in wh.dim_customers : c.customer_id = df_clean[i].CustomerID
     /\ \E p \in wh.dim_products : p.stock_code = df_clean[i].StockCode
     /\ \E d \in wh.dim_dates : d.full_date = DateOf(df_clean[i].InvoiceDate)}

\* fact row f is the fact row of clean record r
FactOf(f, r) ==
  /\ f.invoice_no = r.InvoiceNo
  /\ f.quantity = r.Quantity
  /\ f.unit_price = r.UnitPrice
  /\ f.invoice_date = r.InvoiceDate
  /\ f.customer_id = r.CustomerID
  /\ \E p \in wh.dim_products :
       p.product_id = f.product_id /\ p.stock_code = r.StockCode
  /\ \E d \in wh.dim_dates :
       d.date_id = f.date_id /\ d.full_date = DateOf(r.InvoiceDate)

\* C8: every fact row references a customer, a product and a date row that
\* exist; a load_facts that returned True inserted one fact row for each
\* clean record whose three lookups find a row, in order, and none for the
\* others, and counted them as transactions_loaded; and load_facts fails
\* only when a call to the database raises, never for a record without a
\* dimension row
C8_FactsResolved ==
  /\ \A i \in 1..Len(wh.fact_transactions) :
       LET f == wh.fact_transactions[i]
       IN /\ \E c \in wh.dim_customers : c.customer_id = f.customer_id
          /\ \E q \in wh.dim_products : q.product_id = f.product_id
          /\ \E d \in wh.dim_dates : d.date_id = f.date_id
  /\ Failed(5) => fault.stage = "load_facts"
  /\ Passed(5) =>
       /\ stats.transactions_loaded = Cardinality(Resolvable)
       /\ Len(AddedFacts) = Cardinality(Resolvable)
       /\ \A k \in 1..Len(AddedFacts) :
            \E i \in Resolvable :
              /\ Cardinality({j \in Resolvable : j < i}) = k - 1
              /\ FactOf(AddedFacts[k], df_clean[i])

\* C8: load_facts returned True in a run with a clean record that has no
\* product row and a clean record that has all three rows
C8_Witness ==
  /\ Passed(5)
  /\ Resolvable # {}
  /\ Resolvable # 1..Len(df_clean)

\* the run before this one and this run both returned True, on the same rows
SameSourceTwice ==
  /\ pc = "done"
  /\ result = "True"
  /\ prev.ran
  /\ prev.result = "True"
  /\ prev.raw = df_raw

\* C9: no run changes or removes a date row; and a run over the rows of the
\* run before it, both returning True, leaves the number of rows of each
\* dimension table as it found it, with one row for each date, customer id
\* and item code of the clean records, and appends to fact_transactions the
\* fact rows the run before it appended, once more
C9_RerunSameSource ==
  /\ wh0.dim_dates \subseteq wh.dim_dates
  /\ SameSourceTwice =>
       /\ Cardinality(wh.dim_dates) = Cardinality(wh0.dim_dates)
       /\ Cardinality(wh.dim_customers) = Cardinality(wh0.dim_customers)
       /\ Cardinality(wh.dim_products) = Cardinality(wh0.dim_products)
       /\ \A r \in CleanSet :
            /\ Cardinality({d \in wh.dim_dates :
                              d.full_date = DateOf(r.InvoiceDate)}) = 1
            /\ Cardinality({c \in wh.dim_customers :
                              c.customer_id = r.CustomerID}) = 1
            /\ r.StockCode # <<>> =>
                 Cardinality({p \in wh.dim_products :
                                p.stock_code = r.StockCode}) = 1
       /\ wh.fact_transactions = wh0.fact_transactions \o prev.added
       /\ stats.transactions_loaded = Len(prev.added)

\* C9: the second of two runs over the same rows has returned True, each
\* having appended two fact rows or more
C9_Witness ==
  /\ SameSourceTwice
  /\ Len(prev.added) >= 2
  /\ Len(wh.fact_transactions) = 2 * Len(prev.added)
  /\ Cardinality(wh.dim_dates) >= 2

\* the clean records of customer id, in order
BatchOf(id) == SelectSeq(df_clean, LAMBDA r : r.CustomerID = id)

\* the aggregates of the current batch for customer id
BatchFirst(id) ==
  CHOOSE t \in {r.InvoiceDate : r \in Range(BatchOf(id))} :
    \A r \in Range(BatchOf(id)) : TimeKey(t) <= TimeKey(r.InvoiceDate)
BatchLast(id) ==
  CHOOSE t \in {r.InvoiceDate : r \in Range(BatchOf(id))} :
    \A r \in Range(BatchOf(id)) : TimeKey(t) >= TimeKey(r.InvoiceDate)
BatchOrders(id) == Cardinality({r.InvoiceNo : r \in Range(BatchOf(id))})
BatchValue(id) ==
  SumSeq([i \in 1..Len(BatchOf(id)) |->
            BatchOf(id)[i].Quantity * BatchOf(id)[i].UnitPrice])

\* the customer ids of the current batch that had a row when the run started
Returning ==
  {r.CustomerID : r \in CleanSet} \cap {c.customer_id : c \in wh0.dim_customers}

StoredCustomer(table, id) == CHOOSE c \in table : c.customer_id = id

\* C10 as claimed: after load_dimensions, the row of a customer id that had
\* a row before holds the current batch's min date, max date, distinct
\* invoice count and summed total
C10_AllOverwritten ==
  Passed(4) =>
    \A id \in Returning :
      LET c == StoredCustomer(wh.dim_customers, id)
      IN /\ c.first_purchase_date = BatchFirst(id)
         /\ c.last_purchase_date = BatchLast(id)
         /\ c.total_orders = BatchOrders(id)
         /\ c.lifetime_value = BatchValue(id)

\* C10 as amended: after load_dimensions, the row of a customer id that had
\* a row before holds the current batch's max date, distinct invoice count
\* and summed total, and the first purchase date and country it held before
C10_AggregatesOverwritten ==
  Passed(4) =>
    \A id \in Returning :
      LET c == StoredCustomer(wh.dim_customers, id)
          old == StoredCustomer(wh0.dim_customers, id)
      IN /\ Cardinality({x \in wh.dim_customers : x.customer_id = id}) = 1
         /\ c.last_purchase_date = BatchLast(id)
         /\ c.total_orders = BatchOrders(id)
         /\ c.lifetime_value = BatchValue(id)
         /\ c.first_purchase_date = old.first_purchase_date
         /\ c.country = old.country

\* C10: load_dimensions returned True for a batch with a customer whose
\* stored row had another first purchase date, order count and lifetime
\* value than the batch gives
C10_Witness ==
  /\ Passed(4)
  /\ \E id \in Returning :
       LET old == StoredCustomer(wh0.dim_customers, id)
       IN /\ old.first_purchase_date # BatchFirst(id)
          /\ old.total_orders # BatchOrders(id)
          /\ old.lifetime_value # BatchValue(id)

\* C11: for a file of 4 rows on an empty warehouse, namely the normal row
\* (quantity 3, price 2.50, customer 101), its exact duplicate, a row without
\* a customer id and a row of invoice "C1001", a run whose load_facts
\* returned True has kept exactly 1 clean record, the first copy of the
\* normal row, reports customers_loaded = products_loaded = dates_loaded =
\* transactions_loaded = 1, and has stored one fact whose amount is 7.50
\* (750 cents)
C11_Scenario ==
  Passed(5) =>
    /\ stats.rows_extracted = 4
    /\ stats.rows_after_cleaning = 1
    /\ Len(df_clean) = 1
    /\ df_raw[df_clean[1].idx] = BaseRow
    /\ \A j \in 1..(df_clean[1].idx - 1) : df_raw[j] # BaseRow
    /\ df_clean[1].CustomerID = 101
    /\ df_clean[1].TotalAmount = 750
    /\ stats.customers_loaded = 1
    /\ stats.products_loaded = 1
    /\ stats.dates_loaded = 1
    /\ stats.transactions_loaded = 1
    /\ Cardinality(wh.dim_customers) = 1
    /\ Cardinality(wh.dim_products) = 1
    /\ Cardinality(wh.dim_dates) = 1
    /\ Len(wh.fact_transactions) = 1
    /\ wh.fact_transactions[1].quantity = 3
    /\ wh.fact_transactions[1].unit_price = 250
    /\ total_amount(wh.fact_transactions[1]) = 750

\* C11: a run over the four rows in the order given, the cancelled row
\* otherwise equal to the normal row, returned True
C11_Witness ==
  /\ result = "True"
  /\ df_raw = <<BaseRow, BaseRow, [BaseRow EXCEPT !.CustomerID = <<>>],
                [BaseRow EXCEPT !.InvoiceNo = InvC1001]>>
  /\ Len(wh.fact_transactions) = 1
====
